---- MODULE Spec2Model ----
(***************************************************************************)
(* A model of vcs_number.py, the TeamCity build-number script.             *)
(*                                                                         *)
(* Text is a sequence of tokens.  A token is one character of Alphabet,    *)
(* or one of the fixed literals of the source ("vcsnumber", ".txt", the    *)
(* parts of the messages), which the script never looks inside.            *)
(***************************************************************************)
EXTENDS Integers, Sequences, FiniteSets, TLC

VARIABLES environ, files, stdout, ret, artifacts, building

vars == <<environ, files, stdout, ret, artifacts, building>>

(***************************************************************************)
(* Bounds of the model.                                                    *)
(***************************************************************************)
MaxLen == 4

MaxFiles == 3

MaxOwnLen == 2

(***************************************************************************)
(* Characters and strings.                                                 *)
(***************************************************************************)
Digits == {"0", "1"}

Whitespace == {" ", "\n"}

Alphabet == Digits \cup Whitespace \cup {".", "-", "x"}

RECURSIVE Strings(_)
Strings(n) ==
    IF n = 0 THEN {<< >>}
    ELSE LET shorter == Strings(n - 1)
         IN  shorter \cup {<<c>> \o s : c \in Alphabet, s \in {t \in shorter : Len(t) = n - 1}}

\* Every text of at most MaxLen, and of at most MaxOwnLen, characters.
BuildNumbers == Strings(MaxLen)

OwnBuildNumbers == Strings(MaxOwnLen)

IsDigit(c) == c \in {"0", "1", "2", "3", "4", "5", "6", "7", "8", "9"}

DigitValue(c) ==
    CASE c = "0" -> 0 [] c = "1" -> 1 [] c = "2" -> 2 [] c = "3" -> 3 [] c = "4" -> 4
      [] c = "5" -> 5 [] c = "6" -> 6 [] c = "7" -> 7 [] c = "8" -> 8 [] c = "9" -> 9

DigitChar(d) ==
    CASE d = 0 -> "0" [] d = 1 -> "1" [] d = 2 -> "2" [] d = 3 -> "3" [] d = 4 -> "4"
      [] d = 5 -> "5" [] d = 6 -> "6" [] d = 7 -> "7" [] d = 8 -> "8" [] d = 9 -> "9"

Drop(s, n) == SubSeq(s, n + 1, Len(s))

Take(s, n) == SubSeq(s, 1, n)

(***************************************************************************)
(* The results of a call: a returned number or text, or a raised exception *)
(* with its message.                                                       *)
(***************************************************************************)
ReturnNum(n) == [status |-> "return", num |-> n, str |-> << >>, exc |-> "", msg |-> << >>]

ReturnStr(s) == [status |-> "return", num |-> 0, str |-> s, exc |-> "", msg |-> << >>]

Raise(e, m) == [status |-> "raise", num |-> 0, str |-> << >>, exc |-> e, msg |-> m]

Returned(r) == r.status = "return"

Raised(r) == r.status = "raise"

(***************************************************************************)
(* Python built-ins.                                                       *)
(***************************************************************************)
RECURSIVE py_lstrip(_)
py_lstrip(s) ==
    IF s # << >> /\ Head(s) \in Whitespace THEN py_lstrip(Tail(s)) ELSE s

RECURSIVE py_rstrip(_)
py_rstrip(s) ==
    IF s # << >> /\ s[Len(s)] \in Whitespace THEN py_rstrip(Take(s, Len(s) - 1)) ELSE s

py_strip(s) == py_rstrip(py_lstrip(s))

RECURSIVE DigitsToInt(_)
DigitsToInt(s) ==
    IF s = << >> THEN 0
    ELSE 10 * DigitsToInt(Take(s, Len(s) - 1)) + DigitValue(s[Len(s)])

AllDigits(s) == \A i \in 1..Len(s) : IsDigit(s[i])

\* int(s): surrounding whitespace is stripped, one sign is allowed, and the
\* rest must be a non-empty run of decimal digits.
py_int(s) ==
    LET t    == py_strip(s)
        neg  == t # << >> /\ Head(t) = "-"
        body == IF t # << >> /\ Head(t) \in {"-", "+"} THEN Tail(t) ELSE t
    IN  IF body # << >> /\ AllDigits(body)
        THEN ReturnNum(IF neg THEN 0 - DigitsToInt(body) ELSE DigitsToInt(body))
        ELSE Raise("ValueError", <<"invalid literal for int() with base 10: ">> \o s)

RECURSIVE py_str(_)
py_str(n) ==
    IF n < 0 THEN <<"-">> \o py_str(0 - n)
    ELSE IF n < 10 THEN <<DigitChar(n)>>
    ELSE py_str(n \div 10) \o <<DigitChar(n % 10)>>

\* max(a, b): the first argument is kept unless a later one is greater.
py_max2(a, b) == IF b > a THEN b ELSE a

RECURSIVE py_max(_)
py_max(list) ==
    IF Len(list) = 1 THEN list[1]
    ELSE py_max2(py_max(Take(list, Len(list) - 1)), list[Len(list)])

\* Index of the last "." of s, 0 when there is none.
LastDot(s) ==
    IF \E i \in 1..Len(s) : s[i] = "."
    THEN CHOOSE i \in 1..Len(s) : s[i] = "." /\ \A j \in (i + 1)..Len(s) : s[j] # "."
    ELSE 0

\* s.split('.')[-1]
split_last(s) == Drop(s, LastDot(s))

\* '.'.join(s.split('.')[:-1])
join_but_last(s) == IF LastDot(s) = 0 THEN << >> ELSE Take(s, LastDot(s) - 1)

\* Where '$' matches for a digit run: the end of the string, or just before a
\* newline that ends the string.
DollarEnd(s) == IF s # << >> /\ s[Len(s)] = "\n" THEN Len(s) - 1 ELSE Len(s)

\* The substitution with the pattern '\d$': only the last digit is replaced.
re_subn_last_digit(repl, s) ==
    LET e == DollarEnd(s)
    IN  IF e >= 1 /\ IsDigit(s[e])
        THEN [str |-> Take(s, e - 1) \o repl \o Drop(s, e), n |-> 1]
        ELSE [str |-> s, n |-> 0]

\* re.subn('\d+$', repl, s): [str |-> the new string, n |-> substitutions made].
re_subn_trailing_digits(repl, s) ==
    LET e == DollarEnd(s)
    IN  IF e >= 1 /\ IsDigit(s[e])
        THEN LET b == CHOOSE i \in 1..e :
                          /\ \A j \in i..e : IsDigit(s[j])
                          /\ (i = 1 \/ ~IsDigit(s[i - 1]))
             IN  [str |-> Take(s, b - 1) \o repl \o Drop(s, e), n |-> 1]
        ELSE [str |-> s, n |-> 0]

re_sub_trailing_digits(repl, s) == re_subn_trailing_digits(repl, s).str

(***************************************************************************)
(* The environment of a run: os.environ and the working directory.         *)
(*   environ : a function from the names of the variables that are set to  *)
(*             their values;                                               *)
(*   files   : a function from the names of the files of the working       *)
(*             directory to their contents.                                *)
(***************************************************************************)
NoEnv == [v \in {} |-> << >>]

NoFiles == [f \in {} |-> << >>]

SetVar(env, var, value) ==
    [v \in DOMAIN env \cup {var} |-> IF v = var THEN value ELSE env[v]]

WriteFile(fs, name, content) ==
    [f \in DOMAIN fs \cup {name} |-> IF f = name THEN content ELSE fs[f]]

\* fnmatch(name, 'vcsnumber*.txt')
MatchesPattern(name) ==
    Len(name) >= 2 /\ name[1] = "vcsnumber" /\ name[Len(name)] = ".txt"

\* The names glob.glob('vcsnumber*.txt') finds, as a set: the order in which
\* glob lists them is the directory's, and a caller must take any.
glob(fs) == {f \in DOMAIN fs : MatchesPattern(f)}

RECURSIVE Orders(_)
Orders(S) ==
    IF S = {} THEN {<< >>}
    ELSE UNION {{<<x>> \o o : o \in Orders(S \ {x})} : x \in S}

(***************************************************************************)
(* The functions of vcs_number.py.  `order` is the list glob returned.     *)
(***************************************************************************)
get_teamcity_message(build_number) ==
    <<"##teamcity[buildNumber '">> \o build_number \o <<"']">>

get_own_build_number(env) ==
    IF "BUILD_NUMBER" \in DOMAIN env /\ env["BUILD_NUMBER"] # << >>
    THEN ReturnStr(env["BUILD_NUMBER"])
    ELSE Raise("Exception", <<"BUILD_NUMBER not set in environment variables">>)

\* get_vcs_number with int(last or 0): an empty last component counts as 0.
get_vcs_number_empty_is_zero(build_number) ==
    LET last == split_last(build_number)
        r    == IF last = << >> THEN ReturnNum(0) ELSE py_int(last)
    IN  IF Returned(r) THEN r
        ELSE Raise("Exception",
                   <<"Check the build number format in your TeamCity configuration. ">>
                   \o build_number
                   \o <<" is not a valid build number, it needs to end with the vcs number.">>)

get_vcs_number(build_number) ==
    LET r == py_int(split_last(build_number))
    IN  IF Returned(r) THEN r
        ELSE Raise("Exception",
                   <<"Check the build number format in your TeamCity configuration. ">>
                   \o build_number
                   \o <<" is not a valid build number, it needs to end with the vcs number.">>)

get_branch_number(build_number) == join_but_last(build_number)

\* get_vcs_number_from_file that swallows the ValueError and reads 0.
get_vcs_number_from_file_lenient(fs, file_name) ==
    IF Returned(py_int(fs[file_name])) THEN py_int(fs[file_name]) ELSE ReturnNum(0)

get_vcs_number_from_file(fs, file_name) == py_int(fs[file_name])

\* get_largest_dependency_vcs_number that keeps the last file's number
\* instead of the largest.
get_largest_dependency_vcs_number_last(fs, order) ==
    IF order = << >> THEN ReturnNum(0)
    ELSE LET read(i) == get_vcs_number_from_file(fs, order[i])
             bad     == {i \in 1..Len(order) : Raised(read(i))}
         IN  IF bad # {}
             THEN read(CHOOSE i \in bad : \A j \in bad : i <= j)
             ELSE ReturnNum(read(Len(order)).num)

get_largest_dependency_vcs_number(fs, order) ==
    IF order = << >> THEN ReturnNum(0)
    ELSE LET read(i) == get_vcs_number_from_file(fs, order[i])
             bad     == {i \in 1..Len(order) : Raised(read(i))}
         IN  IF bad # {}
             THEN read(CHOOSE i \in bad : \A j \in bad : i <= j)
             ELSE ReturnNum(py_max([i \in 1..Len(order) |-> read(i).num]))

\* get_final_vcs_number that returns the own vcs number whatever the
\* dependencies hold.
get_final_vcs_number_own_only(env, fs, order) ==
    LET own == get_own_build_number(env)
    IN  IF Raised(own) THEN own
        ELSE LET mine == get_vcs_number(own.str)
             IN  IF Raised(mine) THEN mine
                 ELSE LET deps == get_largest_dependency_vcs_number(fs, order)
                      IN  IF Raised(deps) THEN deps ELSE ReturnNum(mine.num)

get_final_vcs_number(env, fs, order) ==
    LET own == get_own_build_number(env)
    IN  IF Raised(own) THEN own
        ELSE LET mine == get_vcs_number(own.str)
             IN  IF Raised(mine) THEN mine
                 ELSE LET deps == get_largest_dependency_vcs_number(fs, order)
                      IN  IF Raised(deps) THEN deps
                          ELSE ReturnNum(py_max(<<mine.num, deps.num>>))

get_build_number(env, fs, order) ==
    LET final == get_final_vcs_number(env, fs, order)
    IN  IF Raised(final) THEN final
        ELSE ReturnStr(re_sub_trailing_digits(py_str(final.num),
                                              get_own_build_number(env).str))

\* str.replace(' ', '_')
replace_spaces(name) == [i \in 1..Len(name) |-> IF name[i] = " " THEN "_" ELSE name[i]]

VcsNumberFileName(config_name) ==
    <<"vcsnumber", "_">> \o replace_spaces(config_name) \o <<".txt">>

\* [res |-> None or the exception, files |-> the directory afterwards]
write_vcs_number_file(env, fs, vcs_number) ==
    IF "TEAMCITY_BUILDCONF_NAME" \notin DOMAIN env
    THEN [res |-> Raise("KeyError", <<"TEAMCITY_BUILDCONF_NAME">>), files |-> fs]
    ELSE [res   |-> ReturnStr(<< >>),
          files |-> WriteFile(fs, VcsNumberFileName(env["TEAMCITY_BUILDCONF_NAME"]),
                              py_str(vcs_number))]

\* main(), from line 43 on: build_number has been printed and vcs is the
\* outcome of get_vcs_number(build_number).
main_write(env, fs, printed, vcs) ==
    IF Raised(vcs)
    THEN [res |-> vcs, stdout |-> printed, files |-> fs]
    ELSE [res    |-> write_vcs_number_file(env, fs, vcs.num).res,
          stdout |-> printed,
          files  |-> write_vcs_number_file(env, fs, vcs.num).files]

\* main(), from line 42 on: build_number is the outcome of get_build_number().
main_print(env, fs, build_number) ==
    IF Raised(build_number)
    THEN [res |-> build_number, stdout |-> << >>, files |-> fs]
    ELSE main_write(env, fs, <<get_teamcity_message(build_number.str)>>,
                    get_vcs_number(build_number.str))

\* [res, stdout |-> the lines printed, files |-> the directory afterwards]
main(env, fs, order) == main_print(env, fs, get_build_number(env, fs, order))

(***************************************************************************)
(* The state.                                                              *)
(*   environ, files : the environment of the process, as above;            *)
(*   stdout         : the lines the process of this build step printed;    *)
(*   ret            : the most recent call, its argument and its outcome,  *)
(*                    forgotten when the environment is changed;           *)
(*   artifacts      : per configuration, the files its last successful     *)
(*                    build published;                                     *)
(*   building       : the configuration whose build step is running.       *)
(***************************************************************************)
Called(fn, arg, res) == [fn |-> fn, arg |-> arg, res |-> res]

NoCall == Called("none", << >>, ReturnStr(<< >>))

ConfName == <<"Rules", " ", "static">>

DepName(d) == <<"vcsnumber", "_", d, ".txt">>

\* The texts a dependency file under test holds.
DepTexts == {<<"0">>, <<"1">>, <<"1", "0">>, <<"1", "1", "\n">>, <<"-", "1">>, <<"x">>, << >>}

NoArtifacts == [c \in {} |-> NoFiles]

(***************************************************************************)
(* Spec: the functions, called on every BUILD_NUMBER of at most MaxLen     *)
(* characters, with no dependency file or one.                             *)
(***************************************************************************)
Init ==
    /\ environ \in {NoEnv} \cup {SetVar(NoEnv, "BUILD_NUMBER", b) : b \in BuildNumbers}
    /\ files \in {NoFiles}
                 \cup {WriteFile(NoFiles, DepName("dep1"), t) : t \in {<<"1">>, <<"1", "0">>, <<"x">>}}
    /\ stdout = << >>
    /\ ret = NoCall
    /\ artifacts = NoArtifacts
    /\ building = "none"

HasBuildNumber == "BUILD_NUMBER" \in DOMAIN environ

Call_get_own_build_number ==
    /\ ret' = Called("get_own_build_number", << >>, get_own_build_number(environ))
    /\ UNCHANGED <<environ, files, stdout, artifacts, building>>

\* The unit tests call these two on a build number directly.
Call_get_vcs_number ==
    /\ HasBuildNumber
    /\ ret' = Called("get_vcs_number", environ["BUILD_NUMBER"],
                     get_vcs_number(environ["BUILD_NUMBER"]))
    /\ UNCHANGED <<environ, files, stdout, artifacts, building>>

Call_get_branch_number ==
    /\ HasBuildNumber
    /\ ret' = Called("get_branch_number", environ["BUILD_NUMBER"],
                     ReturnStr(get_branch_number(environ["BUILD_NUMBER"])))
    /\ UNCHANGED <<environ, files, stdout, artifacts, building>>

Call_get_largest_dependency_vcs_number ==
    /\ \E order \in Orders(glob(files)) :
           ret' = Called("get_largest_dependency_vcs_number", << >>,
                         get_largest_dependency_vcs_number(files, order))
    /\ UNCHANGED <<environ, files, stdout, artifacts, building>>

Call_get_final_vcs_number ==
    /\ \E order \in Orders(glob(files)) :
           ret' = Called("get_final_vcs_number", << >>,
                         get_final_vcs_number(environ, files, order))
    /\ UNCHANGED <<environ, files, stdout, artifacts, building>>

Call_get_build_number ==
    /\ \E order \in Orders(glob(files)) :
           ret' = Called("get_build_number", << >>,
                         get_build_number(environ, files, order))
    /\ UNCHANGED <<environ, files, stdout, artifacts, building>>

Next ==
    \/ Call_get_own_build_number
    \/ Call_get_vcs_number
    \/ Call_get_branch_number
    \/ Call_get_largest_dependency_vcs_number
    \/ Call_get_final_vcs_number
    \/ Call_get_build_number

Spec == Init /\ [][Next]_vars

(***************************************************************************)
(* The vocabulary of the claims, stated without the script's functions.    *)
(***************************************************************************)
BuildNumber == IF HasBuildNumber THEN environ["BUILD_NUMBER"] ELSE << >>

\* k is where the last component of B starts: after the last ".", or at the
\* start of a B without one.
LastComponentAfter(B, k) ==
    /\ k \in 0..Len(B)
    /\ k = 0 \/ B[k] = "."
    /\ \A j \in (k + 1)..Len(B) : B[j] # "."

RECURSIVE Pow10(_)
Pow10(k) == IF k = 0 THEN 1 ELSE 10 * Pow10(k - 1)

RECURSIVE DecimalValue(_)
DecimalValue(d) ==
    IF d = << >> THEN 0
    ELSE DigitValue(Head(d)) * Pow10(Len(d) - 1) + DecimalValue(Tail(d))

\* Dot-separated non-negative integers: digits and dots, no empty component.
ValidBuildNumber(B) ==
    /\ B # << >>
    /\ \A i \in 1..Len(B) : IsDigit(B[i]) \/ B[i] = "."
    /\ B[1] # "." /\ B[Len(B)] # "."
    /\ \A i \in 1..(Len(B) - 1) : ~(B[i] = "." /\ B[i + 1] = ".")

\* A digit run written as str() writes a number: no leading zero.
CanonicalDecimal(d) == d # << >> /\ AllDigits(d) /\ (Len(d) = 1 \/ d[1] # "0")

\* Text that denotes one integer: optional blanks, an optional sign, digits,
\* optional blanks.
NumericText(t) ==
    \E a \in 1..Len(t) : \E b \in a..Len(t) :
        /\ \A i \in a..b : IsDigit(t[i])
        /\ \A i \in (b + 1)..Len(t) : t[i] \in Whitespace
        /\ \A i \in 1..(a - 2) : t[i] \in Whitespace
        /\ a = 1 \/ t[a - 1] \in Whitespace \cup {"-", "+"}

\* s occurs in m as a contiguous run.
Contains(m, s) ==
    \E i \in 0..(Len(m) - Len(s)) : SubSeq(m, i + 1, i + Len(s)) = s

(***************************************************************************)
(* C6, as stated, fails: for every valid build number B with branch number *)
(* p and vcs number v, get_branch_number(B) = p, get_vcs_number(B) = v,    *)
(* and re-injecting v into B (get_build_number with no dependency, whose   *)
(* final vcs number is v) yields B unchanged.                              *)
(***************************************************************************)
C6_RoundTripOfEveryValidBuildNumber ==
    (HasBuildNumber /\ ValidBuildNumber(BuildNumber)) =>
        \A k \in 0..Len(BuildNumber) : LastComponentAfter(BuildNumber, k) =>
            /\ ret.fn = "get_branch_number" =>
                   ret.res = ReturnStr(Take(BuildNumber, IF k = 0 THEN 0 ELSE k - 1))
            /\ ret.fn = "get_vcs_number" =>
                   ret.res = ReturnNum(DecimalValue(Drop(BuildNumber, k)))
            /\ (ret.fn = "get_build_number" /\ files = NoFiles) =>
                   ret.res = ReturnStr(BuildNumber)

(***************************************************************************)
(* C6, amended: for every valid build number B with branch number p and    *)
(* vcs number v, get_branch_number(B) = p and get_vcs_number(B) = v; and   *)
(* re-injecting v yields B unchanged when the last component of B is       *)
(* written without leading zeros.                                          *)
(***************************************************************************)
C6_RoundTripOfCanonicalBuildNumber ==
    (HasBuildNumber /\ ValidBuildNumber(BuildNumber)) =>
        \A k \in 0..Len(BuildNumber) : LastComponentAfter(BuildNumber, k) =>
            /\ ret.fn = "get_branch_number" =>
                   ret.res = ReturnStr(Take(BuildNumber, IF k = 0 THEN 0 ELSE k - 1))
            /\ ret.fn = "get_vcs_number" =>
                   ret.res = ReturnNum(DecimalValue(Drop(BuildNumber, k)))
            /\ (ret.fn = "get_build_number" /\ files = NoFiles
                  /\ CanonicalDecimal(Drop(BuildNumber, k))) =>
                   ret.res = ReturnStr(BuildNumber)

C6_Witness ==
    /\ HasBuildNumber
    /\ BuildNumber = <<"1", ".", "1", "0">>
    /\ files = NoFiles
    /\ ret = Called("get_build_number", << >>, ReturnStr(<<"1", ".", "1", "0">>))

(***************************************************************************)
(* C7, as stated, fails on the code: for every own build number that       *)
(* get_vcs_number accepts and every new vcs number n, the build number     *)
(* get_build_number returns keeps the branch number of the own build       *)
(* number, differs from it only in the trailing digit run, comes from      *)
(* exactly one substitution, and has n as its extracted vcs number.        *)
(***************************************************************************)
C7_InjectionKeepsBranchAndYieldsNewNumber ==
    (/\ ret.fn = "get_build_number"
     /\ Returned(ret.res)
     /\ Returned(get_vcs_number(BuildNumber))) =>
        \A order \in Orders(glob(files)) :
            LET n == get_final_vcs_number(environ, files, order).num
                B == BuildNumber
                R == ret.res.str
            IN  /\ get_branch_number(R) = get_branch_number(B)
                /\ re_subn_trailing_digits(py_str(n), B).n = 1
                /\ \E k \in 0..(Len(B) - 1) :
                       /\ Take(R, k) = Take(B, k)
                       /\ AllDigits(Drop(B, k))
                       /\ Drop(R, k) = py_str(n)
                /\ get_vcs_number(R) = ReturnNum(n)

(***************************************************************************)
(* C8: get_vcs_number(B) raises, with a message that contains B itself and *)
(* tells the caller to check the build number format, for every B whose    *)
(* last dot-separated component is empty or is not the text of a number;   *)
(* it never returns a number for such a B.                                 *)
(***************************************************************************)
C8_MalformedBuildNumberRaises ==
    ret.fn = "get_vcs_number" =>
        \A k \in 0..Len(ret.arg) :
            (LastComponentAfter(ret.arg, k) /\ ~NumericText(Drop(ret.arg, k))) =>
                /\ Raised(ret.res)
                /\ ret.res.exc = "Exception"
                /\ Contains(ret.res.msg, ret.arg)
                /\ Contains(ret.res.msg,
                            <<"Check the build number format in your TeamCity configuration. ">>)

C8_Witness ==
    /\ ret.fn = "get_vcs_number"
    /\ ret.arg = <<"1", ".", "0", ".">>
    /\ Raised(ret.res)
    /\ Contains(ret.res.msg, <<"1", ".", "0", ".">>)

(***************************************************************************)
(* C1: get_final_vcs_number() returns the maximum of the own vcs number    *)
(* and the largest dependency vcs number: the own number when it is        *)
(* strictly greater, the dependency maximum when that is strictly greater, *)
(* and the common value when they are equal.                               *)
(***************************************************************************)
C1_FinalIsMaxOfOwnAndDependencies ==
    ret.fn = "get_final_vcs_number" =>
        \A order \in Orders(glob(files)) :
            LET own  == get_vcs_number(BuildNumber)
                deps == get_largest_dependency_vcs_number(files, order)
            IN  (BuildNumber # << >> /\ Returned(own) /\ Returned(deps)) =>
                    /\ Returned(ret.res)
                    /\ own.num > deps.num => ret.res.num = own.num
                    /\ deps.num > own.num => ret.res.num = deps.num
                    /\ own.num = deps.num => ret.res.num = own.num

C1_Witness ==
    /\ ret.fn = "get_final_vcs_number"
    /\ BuildNumber = <<"0", ".", "1">>
    /\ DepName("dep1") \in DOMAIN files
    /\ files[DepName("dep1")] = <<"1", "0">>
    /\ ret.res = ReturnNum(10)

(***************************************************************************)
(* AggSpec: the Dependency Aggregator on a working directory of at most    *)
(* MaxFiles files, as the unit tests build it and tear it down.            *)
(***************************************************************************)
FileNames ==
    {DepName("dep1"), DepName("dep2"), DepName("dep3"),
     <<"notes", ".txt">>, <<"vcsnumber", "_", "dep1", ".bak">>}

AggInit ==
    /\ environ = NoEnv
    /\ files = NoFiles
    /\ stdout = << >>
    /\ ret = NoCall
    /\ artifacts = NoArtifacts
    /\ building = "none"

PutFile(name, text) ==
    /\ Cardinality(DOMAIN files \cup {name}) <= MaxFiles
    /\ files' = WriteFile(files, name, text)
    /\ ret' = NoCall
    /\ UNCHANGED <<environ, stdout, artifacts, building>>

RemoveFile(name) ==
    /\ name \in DOMAIN files
    /\ files' = [f \in DOMAIN files \ {name} |-> files[f]]
    /\ ret' = NoCall
    /\ UNCHANGED <<environ, stdout, artifacts, building>>

AggNext ==
    \/ \E name \in FileNames, text \in DepTexts : PutFile(name, text)
    \/ \E name \in FileNames : RemoveFile(name)
    \/ Call_get_largest_dependency_vcs_number

AggSpec == AggInit /\ [][AggNext]_vars

\* The numbers the matching files hold.
DependencyValues == {py_int(files[f]).num : f \in glob(files)}

AllParseable == \A f \in glob(files) : NumericText(files[f])

(***************************************************************************)
(* C2: get_largest_dependency_vcs_number() returns 0 when no file matches  *)
(* vcsnumber*.txt, the file's value when exactly one matches, and the      *)
(* maximum of the values of all matching files when several match, the     *)
(* same for every order in which the files are enumerated.                 *)
(***************************************************************************)
C2_LargestDependencyIsMaximum ==
    (ret.fn = "get_largest_dependency_vcs_number" /\ AllParseable) =>
        /\ glob(files) = {} => ret.res = ReturnNum(0)
        /\ \A f \in glob(files) :
               glob(files) = {f} => ret.res = ReturnNum(py_int(files[f]).num)
        /\ glob(files) # {} =>
               /\ Returned(ret.res)
               /\ ret.res.num \in DependencyValues
               /\ \A v \in DependencyValues : ret.res.num >= v
        /\ \A order \in Orders(glob(files)) :
               get_largest_dependency_vcs_number(files, order) = ret.res

C2_Witness ==
    /\ ret.fn = "get_largest_dependency_vcs_number"
    /\ DOMAIN files = {DepName("dep1"), DepName("dep2"), DepName("dep3")}
    /\ files[DepName("dep1")] = <<"1">>
    /\ files[DepName("dep2")] = <<"1", "1", "\n">>
    /\ files[DepName("dep3")] = <<"1", "0">>
    /\ ret.res = ReturnNum(11)

(***************************************************************************)
(* C9: get_largest_dependency_vcs_number() fails whenever at least one     *)
(* file matching vcsnumber*.txt holds text that is not an integer, however *)
(* many other matching files are valid; it never returns a maximum of the  *)
(* parseable files only.                                                   *)
(***************************************************************************)
C9_UnparseableDependencyRaises ==
    (ret.fn = "get_largest_dependency_vcs_number" /\ ~AllParseable) =>
        /\ Raised(ret.res)
        /\ ret.res.exc = "ValueError"

C9_Witness ==
    /\ ret.fn = "get_largest_dependency_vcs_number"
    /\ DOMAIN files = {DepName("dep1"), DepName("dep2"), DepName("dep3")}
    /\ files[DepName("dep1")] = <<"1">>
    /\ files[DepName("dep2")] = <<"x">>
    /\ files[DepName("dep3")] = <<"1", "0">>
    /\ Raised(ret.res)

(***************************************************************************)
(* RunSpec: runs of main() in one working directory that is never cleaned. *)
(* Between runs the CI server assigns a new BUILD_NUMBER (any text of at   *)
(* most MaxOwnLen characters), sets or drops the configuration name, and   *)
(* the artifact dependencies deliver vcsnumber files: each prepares the    *)
(* next build step, whose process has not run or printed yet.              *)
(***************************************************************************)
RunInit ==
    /\ environ = NoEnv
    /\ files = NoFiles
    /\ stdout = << >>
    /\ ret = NoCall
    /\ artifacts = NoArtifacts
    /\ building = "none"

SetEnviron(var, value) ==
    /\ environ' = SetVar(environ, var, value)
    /\ ret' = NoCall
    /\ stdout' = << >>
    /\ UNCHANGED <<files, artifacts, building>>

UnsetEnviron(var) ==
    /\ var \in DOMAIN environ
    /\ environ' = [v \in DOMAIN environ \ {var} |-> environ[v]]
    /\ ret' = NoCall
    /\ stdout' = << >>
    /\ UNCHANGED <<files, artifacts, building>>

DeliverDependency(name, text) ==
    /\ files' = WriteFile(files, name, text)
    /\ ret' = NoCall
    /\ stdout' = << >>
    /\ UNCHANGED <<environ, artifacts, building>>

Main ==
    /\ \E order \in Orders(glob(files)) :
           \E run \in {main(environ, files, order)} :
               /\ ret' = Called("main", << >>, run.res)
               /\ stdout' = run.stdout
               /\ files' = run.files
    /\ UNCHANGED <<environ, artifacts, building>>

RunNext ==
    \/ \E b \in OwnBuildNumbers : SetEnviron("BUILD_NUMBER", b)
    \/ SetEnviron("TEAMCITY_BUILDCONF_NAME", ConfName)
    \/ \E var \in {"BUILD_NUMBER", "TEAMCITY_BUILDCONF_NAME"} : UnsetEnviron(var)
    \/ \E d \in {"dep1", "dep2"}, text \in {<<"1">>, <<"1", "0">>, <<"x">>} :
           DeliverDependency(DepName(d), text)
    \/ Main

RunSpec == RunInit /\ [][RunNext]_vars

\* The build number inside a printed control message.
PrintedBuildNumber(line) == SubSeq(line, 2, Len(line) - 1)

(***************************************************************************)
(* C3, as stated, fails on the code: whenever a run of main() fails with   *)
(* any error, that run has printed no control message and has written no   *)
(* file.                                                                   *)
(***************************************************************************)
C3_FailedRunPrintsAndWritesNothing ==
    [][(Main /\ Raised(ret'.res)) => (stdout' = << >> /\ files' = files)]_vars

(***************************************************************************)
(* C5, as stated, fails on the code: every successful run of main() prints *)
(* exactly one control message ##teamcity[buildNumber '<number>'] and      *)
(* writes exactly one file, vcsnumber_<configuration name, spaces replaced *)
(* by underscores>.txt, holding the decimal text of the vcs number of the  *)
(* printed build number, which is the final vcs number max(own,            *)
(* dependencies).                                                          *)
(***************************************************************************)
C5_SuccessfulRunPrintsAndPersistsFinalNumber ==
    [][(Main /\ Returned(ret'.res)) =>
          /\ Len(stdout') = 1
          /\ stdout'[1] = <<"##teamcity[buildNumber '">>
                          \o PrintedBuildNumber(stdout'[1]) \o <<"']">>
          /\ LET name    == VcsNumberFileName(environ["TEAMCITY_BUILDCONF_NAME"])
                 printed == get_vcs_number(PrintedBuildNumber(stdout'[1]))
             IN  /\ Returned(printed)
                 /\ files' = WriteFile(files, name, py_str(printed.num))
                 /\ \A order \in Orders(glob(files)) :
                        get_final_vcs_number(environ, files, order) = ReturnNum(printed.num)
       ]_vars

(***************************************************************************)
(* C10, as stated, fails on the code: over successive successful runs of   *)
(* main() in the same uncleaned working directory the persisted vcs number *)
(* never decreases, whatever BUILD_NUMBER becomes between the runs, and a  *)
(* re-run in an unchanged environment prints the same message and leaves   *)
(* the file as it is.                                                      *)
(***************************************************************************)
C10_PersistedNumberNeverDecreases ==
    [][(Main /\ Returned(ret'.res)) =>
          LET name == VcsNumberFileName(environ["TEAMCITY_BUILDCONF_NAME"])
          IN  /\ (name \in DOMAIN files /\ NumericText(files[name])) =>
                     py_int(files'[name]).num >= py_int(files[name]).num
              /\ (ret.fn = "main" /\ Returned(ret.res)) =>
                     (stdout' = stdout /\ files' = files)
       ]_vars

(***************************************************************************)
(* PipelineSpec: the pipeline of the module's documentation.  The          *)
(* installer configuration depends on module1 and module2.  A build of a   *)
(* configuration starts, once every upstream configuration has published,  *)
(* in a fresh directory that holds the vcsnumber files the upstream builds *)
(* published ("vcsnumbers.zip!*.* =>"); it runs main(); when main()        *)
(* succeeds the build publishes its vcsnumber*.txt files                   *)
(* ("vcsnumber*.txt => vcsnumbers.zip"), and otherwise it fails.           *)
(***************************************************************************)
Configurations == {"module1", "module2", "installer"}

Upstream(c) == IF c = "installer" THEN {"module1", "module2"} ELSE {}

ConfigurationName(c) ==
    CASE c = "module1"   -> <<"module", " ", "1">>
      [] c = "module2"   -> <<"module2">>
      [] c = "installer" -> <<"installer">>

\* What the artifact dependencies of c put into its working directory.
DeliveredFiles(c) ==
    [f \in UNION {DOMAIN artifacts[u] : u \in Upstream(c)} |->
        artifacts[CHOOSE u \in Upstream(c) : f \in DOMAIN artifacts[u]][f]]

PipelineInit == RunInit

\* One pass of the pipeline: a configuration is built until it has published.
StartBuild(c, b) ==
    /\ building = "none"
    /\ c \notin DOMAIN artifacts
    /\ Upstream(c) \subseteq DOMAIN artifacts
    /\ building' = c
    /\ environ' = SetVar(SetVar(NoEnv, "BUILD_NUMBER", b),
                         "TEAMCITY_BUILDCONF_NAME", ConfigurationName(c))
    /\ files' = DeliveredFiles(c)
    /\ stdout' = << >>
    /\ ret' = NoCall
    /\ UNCHANGED artifacts

RunStep ==
    /\ building # "none"
    /\ ret.fn = "none"
    /\ Main

Publish ==
    /\ building # "none"
    /\ ret.fn = "main" /\ Returned(ret.res)
    /\ artifacts' = [c \in DOMAIN artifacts \cup {building} |->
                        IF c = building THEN [f \in glob(files) |-> files[f]]
                        ELSE artifacts[c]]
    /\ building' = "none"
    /\ UNCHANGED <<environ, files, stdout, ret>>

FailBuild ==
    /\ building # "none"
    /\ ret.fn = "main" /\ Raised(ret.res)
    /\ building' = "none"
    /\ UNCHANGED <<environ, files, stdout, ret, artifacts>>

PipelineNext ==
    \/ \E c \in Configurations, b \in OwnBuildNumbers : StartBuild(c, b)
    \/ RunStep
    \/ Publish
    \/ FailBuild

PipelineSpec == PipelineInit /\ [][PipelineNext]_vars

\* The vcs number configuration u persisted in its last successful build.
PersistedVcsNumber(u) == py_int(artifacts[u][VcsNumberFileName(ConfigurationName(u))]).num

(***************************************************************************)
(* C4, as stated, fails on the code: when a configuration's run succeeds,  *)
(* the vcs number of the build number it emits is not lower than its own   *)
(* vcs number, nor than the persisted vcs number of any upstream           *)
(* configuration.                                                          *)
(***************************************************************************)
C4_EmittedNumberDominatesOwnAndUpstream ==
    (building # "none" /\ ret.fn = "main" /\ Returned(ret.res)) =>
        LET emitted == get_vcs_number(PrintedBuildNumber(stdout[1])).num
        IN  /\ emitted >= get_vcs_number(BuildNumber).num
            /\ \A u \in Upstream(building) : emitted >= PersistedVcsNumber(u)

====
